---- MODULE Spec2Model ----
(***************************************************************************)
(* Model of the trade-bot pipeline: the Processor (src/processor) that     *)
(* classifies messages and memoises the result in the analyses collection, *)
(* the two Redis queues, and the TradeManager (src/manager) that applies   *)
(* the analysis of a message to the trades table and the trade_history     *)
(* audit log; and, on its own, the regex-based TradeManager                *)
(* (src/trade_manager.py).                                                 *)
(***************************************************************************)
EXTENDS Integers, Sequences, FiniteSets, TLC

VARIABLES
    messages,        \* raw_messages collection: message_id -> document
    analyses_coll,   \* analyzed_actions collection: sequence of documents
    message_queue,   \* Redis list MESSAGE_QUEUE, written left to right
    trade_actions,   \* Redis list TRADE_ACTIONS_QUEUE, written left to right
    trades,          \* SQLite table trades, index = trade_id
    trade_history,   \* SQLite table trade_history, index = history_id
    clock,           \* CURRENT_TIMESTAMP, one tick per handled payload
    faults,          \* number of statement failures injected so far
    delivered,       \* number of ids the listener has pushed
    calls,           \* message_id -> number of external classifier calls
    runs,            \* message_id -> the process_message runs for it so far
    mutations,       \* log of the trade rows actually written
    last,            \* the handler invocation that produced this state
    walk,            \* the locals of a running fetch_reply_chain call
    loops,           \* the two consumer loops: whether each is still polling
    messages_table,  \* SQLite table messages of the listener: id -> row
    active_trades    \* the regex-based TradeManager's dict of trades, in
                     \* insertion order

vars == <<messages, analyses_coll, message_queue, trade_actions, trades,
          trade_history, clock, faults, delivered, calls, runs, mutations,
          last, walk, loops, messages_table, active_trades>>

procVars == <<messages, analyses_coll, message_queue, delivered, calls, runs,
              walk, messages_table>>
tmVars == <<trades, trade_history, mutations, clock>>

(***************************************************************************)
(* Bounds                                                                  *)
(***************************************************************************)
MaxActions == 3        \* payloads handled by the TradeManager
MaxActionQueue == 1    \* items waiting in trade_actions
MaxFaults == 1         \* failing statements per behaviour
MaxDeliveries == 2     \* payloads handled by the Processor
MaxRawQueue == 2       \* items waiting in message_queue
MaxPushes == 4         \* payloads pushed to the two Redis lists
MaxBotMessages == 3    \* trades and updates held by the regex-based manager
MaxBotMinutes == 17    \* minutes on the regex-based manager's clock

(***************************************************************************)
(* Values                                                                  *)
(***************************************************************************)
Null == 0 - 1          \* SQL NULL / Python None in a numeric column
NoId == 0              \* related_trade_id that "not trade_id" rejects
NoTime == 0            \* NULL timestamp

Max(a, b) == IF a >= b THEN a ELSE b

\* int(x) of a non-negative or negative rational n/d: truncation toward zero
TruncDiv(n, d) == IF n >= 0 THEN n \div d ELSE 0 - ((0 - n) \div d)

(***************************************************************************)
(* Free-text instructions.  payload['details'].lower() is a string; it is  *)
(* modelled as the sequence of its whitespace-separated tokens.  A token   *)
(* is a word or an integer literal, optionally followed by '%'.            *)
(***************************************************************************)
W(s) == [w |-> s, isint |-> FALSE, v |-> 0, pct |-> FALSE]
N(n) == [w |-> "", isint |-> TRUE, v |-> n, pct |-> FALSE]
Pct(tok) == [tok EXCEPT !.pct = TRUE]

TrimWords == {"trim", "trimmed"}          \* words with substring 'trim'
AddWords == {"add", "added", "address"}   \* words with substring 'add'

HasPhrase(details, a, b) ==
    \E i \in 1..(Len(details) - 1) :
        /\ details[i].w = a /\ ~details[i].pct
        /\ details[i + 1].w = b

\* 'trim' in details or 'scale out' in details
IsTrim(details) ==
    \/ \E i \in 1..Len(details) : details[i].w \in TrimWords
    \/ HasPhrase(details, "scale", "out")

\* 'add' in details or 'scale in' in details
IsAdd(details) ==
    \/ \E i \in 1..Len(details) : details[i].w \in AddWords
    \/ HasPhrase(details, "scale", "in")

\* '%' in details
HasPercent(details) == \E i \in 1..Len(details) : details[i].pct

FirstPct(details) ==
    CHOOSE i \in 1..Len(details) :
        details[i].pct /\ \A j \in 1..(i - 1) : ~details[j].pct

\* details.split('%')[0].split()[-1]: the last token before the first '%'.
\* The result is [ok, isint, v]; ok = FALSE is the IndexError of [][-1].
PercentToken(details) ==
    LET i == FirstPct(details)
        t == details[i]
    IN  IF t.isint \/ t.w # ""
        THEN [ok |-> TRUE, isint |-> t.isint, v |-> t.v]
        ELSE IF i > 1
             THEN [ok |-> TRUE, isint |-> details[i - 1].isint,
                   v |-> details[i - 1].v]
             ELSE [ok |-> FALSE, isint |-> FALSE, v |-> 0]

\* details.split()[-1]
LastToken(details) == details[Len(details)]

\* floor(log2(n)) for 1 <= n < 2^21
Log2(n) == CHOOSE e \in 0..20 : 2^e <= n /\ n < 2^(e + 1)

\* 2^n modulo 100 for n >= 2 (modulo 100 the powers of two from 2^2 on
\* repeat with period 20)
Pow2Mod100(n) == (2^(((n - 2) % 20) + 2)) % 100

\* percent = int(tok) / 100 is the double nearest to p / 100.  Its
\* exponent j: 2^j <= p / 100 < 2^(j + 1), for p >= 1.
PercentExponent(p) ==
    IF p >= 100 THEN Log2(p \div 100)
    ELSE 0 - (CHOOSE k \in 1..7 : p * 2^k >= 100 /\ p * 2^(k - 1) < 100)

\* The double has 53 bits: it is m / 2^(52 - j) for the integer m nearest to
\* p * 2^(52 - j) / 100, and this is the remainder of that division.  A
\* remainder in 1..49 means that the double is below p / 100 by
\* remainder / (100 * 2^(52 - j)).
PercentRemainder(p) == (p * Pow2Mod100(52 - PercentExponent(p))) % 100

\* current_quantity * percent for a product current_quantity * p / 100 that
\* is the integer n >= 1: the double product is below n exactly when
\* percent is below p / 100 by more than half the distance between n and
\* the double before n (which is 2^(eb - 52), eb the exponent of that
\* double); equal to half, the product rounds to n.
ProductBelow(current_quantity, p, n) ==
    LET j == PercentExponent(p)
        eb == IF 2^Log2(n) = n THEN Log2(n) - 1 ELSE Log2(n)
        a == Max(0, j + 1 - eb)
        b == Max(0, eb - j - 1)
    IN  /\ PercentRemainder(p) \in 1..49
        /\ current_quantity * PercentRemainder(p) * 2^a > 100 * 2^b

\* int(current_quantity * percent) with percent = int(tok) / 100, lines
\* 167-168 and 179-180.  current_quantity is read from a REAL column, so
\* the product is a product of doubles, truncated by int().  When
\* current_quantity * p / 100 is not an integer the rounding is too small
\* to change the truncation; when it is an integer the double product may
\* lie just below it and int() then gives one less.
PercentOf(current_quantity, p) ==
    LET exact == TruncDiv(current_quantity * p, 100)
    IN  IF (current_quantity * p) % 100 # 0 \/ exact = 0 THEN exact
        ELSE IF ProductBelow(current_quantity, p, exact) THEN exact - 1
        ELSE exact

\* Lines 160-186 of update_trade: the signed quantity change.
\*   raised : an exception left the parsing (ValueError or IndexError)
\*   branch : "trim", "add" or "none"
\*   change : quantity_change
quantity_change(details, current_quantity) ==
    LET sign == IF IsTrim(details) THEN 0 - 1 ELSE 1
    IN  IF ~IsTrim(details) /\ ~IsAdd(details)
        THEN [raised |-> FALSE, branch |-> "none", change |-> 0]
        ELSE LET branch == IF IsTrim(details) THEN "trim" ELSE "add"
             IN  IF HasPercent(details)
                 THEN LET t == PercentToken(details)
                      IN  IF t.ok /\ t.isint
                          THEN [raised |-> FALSE, branch |-> branch,
                                change |-> sign * PercentOf(current_quantity, t.v)]
                          ELSE [raised |-> TRUE, branch |-> branch, change |-> 0]
                 ELSE IF LastToken(details).isint
                      THEN [raised |-> FALSE, branch |-> branch,
                            change |-> sign * LastToken(details).v]
                      ELSE [raised |-> FALSE, branch |-> branch, change |-> sign]

\* new_quantity = max(0, current_quantity + quantity_change)
new_quantity_unfloored(current_quantity, change) == current_quantity + change

new_quantity(current_quantity, change) == Max(0, current_quantity + change)

(***************************************************************************)
(* The message_analyses table read by TradeManager.get_analysis_by_        *)
(* message_id.  Nothing in the repository inserts into it any more (the    *)
(* Processor stores into the analyzed_actions collection), so its rows are *)
(* the input of the TradeManager: one row per message id, message_id       *)
(* UNIQUE.                                                                 *)
(***************************************************************************)
NoKey == "<absent>"    \* a key the payload does not carry

Payload(ticker, option_type, sizing, stop_loss, take_profit, details) ==
    [ticker |-> ticker, option_type |-> option_type, sizing |-> sizing,
     stop_loss |-> stop_loss, take_profit |-> take_profit, details |-> details]

EmptyPayload == Payload(NoKey, NoKey, NoKey, Null, Null, <<>>)

Row(message_id, classification, related_trade_id, payload) ==
    [analysis_id |-> 100 + message_id, message_id |-> message_id,
     classification |-> classification, related_trade_id |-> related_trade_id,
     reason |-> "r", confidence_score |-> message_id, analysis_payload |-> payload]

Upd(stop_loss, details) == Payload(NoKey, NoKey, NoKey, stop_loss, Null, details)

message_analyses ==
    <<  Row(1, "new_trade", NoId, Payload("AAPL", "CALL", "large", 1, Null, <<>>)),
        Row(2, "new_trade", NoId, Payload("TSLA", "PUT", "lotto", Null, 2, <<>>)),
        Row(3, "new_trade", NoId, Payload("ORCL", "call", "medium", Null, Null, <<>>)),
        Row(4, "trade_update", 1, Upd(Null, <<W("trim"), Pct(N(50))>>)),
        Row(5, "trade_update", 1, Upd(Null, <<W("trim"), N(10)>>)),
        Row(6, "trade_update", 1, Upd(Null, <<W("add"), N(2)>>)),
        Row(7, "trade_update", 1, Upd(2, <<>>)),
        Row(8, "trade_update", 1, Upd(1, <<W("moving"), W("stop"), W("up")>>)),
        Row(9, "trade_update", 9, Upd(2, <<W("trim"), Pct(N(50))>>)),
        Row(10, "trade_update", NoId, Upd(2, <<W("trim"), N(1)>>)),
        Row(11, "trade_close", 1, EmptyPayload),
        Row(12, "trade_close", 9, EmptyPayload),
        Row(13, "irrelevant", NoId, EmptyPayload),
        Row(14, "trade_update", 2, Upd(Null, <<W("trim"), W("a"), W("bit")>>)),
        Row(15, "trade_update", 1, Upd(Null, <<W("add"), Pct(N(50))>>)),
        Row(19, "new_trade", NoId, Payload("MSFT", "PUT", "medium", Null, Null, <<>>)),
        Row(20, "new_trade", NoId, Payload("NVDA", "CALL", NoKey, Null, Null, <<>>)),
        Row(21, "trade_close", NoId, EmptyPayload),
        Row(22, "other", NoId, EmptyPayload),
        Row(23, "hold", NoId, EmptyPayload)  >>

MsgIds == {message_analyses[i].message_id : i \in 1..Len(message_analyses)}
NoAnalysis == 16       \* a message id without a message_analyses row

\* SELECT * FROM message_analyses WHERE message_id = ?
Rows(table) == {table[i] : i \in DOMAIN table}

get_analysis_by_message_id(message_id) ==
    {row \in Rows(message_analyses) : row.message_id = message_id}

(***************************************************************************)
(* TradeManager (src/manager/trade_manager.py).  The handlers are          *)
(* operators on db = [trades, trade_history, mutations]; the argument f    *)
(* names the statement of this invocation that fails ("none": no failure). *)
(***************************************************************************)
SIZING_MAP == [small |-> 1, medium |-> 5, large |-> 10]

\* sizing = payload.get('sizing', 'small'); SIZING_MAP.get(sizing, 1)
sizing_quantity_default_medium(payload) ==
    LET sizing == IF payload.sizing = NoKey THEN "small" ELSE payload.sizing
    IN  IF sizing \in DOMAIN SIZING_MAP THEN SIZING_MAP[sizing] ELSE 5

sizing_quantity(payload) ==
    LET sizing == IF payload.sizing = NoKey THEN "small" ELSE payload.sizing
    IN  IF sizing \in DOMAIN SIZING_MAP THEN SIZING_MAP[sizing] ELSE 1

\* NOT NULL and CHECK constraints of the trades table
insert_accepted(payload) ==
    /\ payload.ticker # NoKey
    /\ payload.option_type \in {"CALL", "PUT"}

Mutation(trade_id, type, analysis_id) ==
    [trade_id |-> trade_id, type |-> type, analysis_id |-> analysis_id]

\* SELECT * FROM trades WHERE trade_id = ?  (0 = no row)
fetch_trade_fallback(db, trade_id) ==
    IF trade_id \in 1..Len(db.trades) THEN trade_id ELSE Len(db.trades)

fetch_trade(db, trade_id) ==
    IF trade_id \in 1..Len(db.trades) THEN trade_id ELSE 0

add_trade_history_rewrite(db, trade_id, analysis_id, event_type, details, f) ==
    IF f = "history_" \o event_type \/ trade_id \notin 1..Len(db.trades)
    THEN db
    ELSE [db EXCEPT !.trade_history =
              SelectSeq(@, LAMBDA e : e.trade_id # trade_id) \o
              <<[trade_id |-> trade_id, triggering_analysis_id |-> analysis_id,
                 event_type |-> event_type, details |-> details,
                 timestamp |-> db.now]>>]

\* INSERT INTO trade_history ...; the insert is lost when the statement
\* fails or the FOREIGN KEY on trade_id rejects it (the error is logged).
add_trade_history(db, trade_id, analysis_id, event_type, details, f) ==
    IF f = "history_" \o event_type \/ trade_id \notin 1..Len(db.trades)
    THEN db
    ELSE [db EXCEPT !.trade_history = Append(@,
              [trade_id |-> trade_id, triggering_analysis_id |-> analysis_id,
               event_type |-> event_type, details |-> details,
               timestamp |-> db.now])]

\* INSERT INTO trades (...) VALUES (...)
new_trade_row(context, now) ==
    [opening_analysis_id |-> context.analysis_id,
     symbol |-> context.payload.ticker,
     option_type |-> context.payload.option_type,
     status |-> "pending_open",
     quantity |-> sizing_quantity(context.payload),
     stop_loss |-> context.payload.stop_loss,
     take_profit |-> context.payload.take_profit,
     created_at |-> now, updated_at |-> now, closed_at |-> NoTime]

open_trade_or_replace(db, context, f) ==
    IF ~insert_accepted(context.payload) \/ (f = "insert" /\ db.trades = <<>>)
    THEN db
    ELSE IF f = "insert"
    THEN [db EXCEPT !.trades[Len(db.trades)] =
                        new_trade_row(context, db.now)]
    ELSE LET trade_id == Len(db.trades) + 1
             db1 == [db EXCEPT
                       !.trades = Append(@, new_trade_row(context, db.now)),
                       !.mutations = Append(@,
                           Mutation(trade_id, "create", context.analysis_id))]
         IN  add_trade_history(db1, trade_id, context.analysis_id, "create",
                 [reason |-> context.reason, confidence |-> context.confidence,
                  full_payload |-> context.payload], f)

\* insert_and_get_id is called once; when it returns no id (the statement
\* failed or a constraint rejected the row) open_trade raises, logs the
\* error and returns.
open_trade(db, context, f) ==
    IF f = "insert" \/ ~insert_accepted(context.payload)
    THEN db
    ELSE LET trade_id == Len(db.trades) + 1
             db1 == [db EXCEPT
                       !.trades = Append(@, new_trade_row(context, db.now)),
                       !.mutations = Append(@,
                           Mutation(trade_id, "create", context.analysis_id))]
         IN  add_trade_history(db1, trade_id, context.analysis_id, "create",
                 [reason |-> context.reason, confidence |-> context.confidence,
                  full_payload |-> context.payload], f)

\* UPDATE trades SET status = 'closed', quantity = 0, closed_at = ...,
\* updated_at = ... WHERE trade_id = ? AND status != 'closed'
closed_row(row, now) ==
    [row EXCEPT !.status = "closed", !.quantity = 0,
                !.closed_at = now, !.updated_at = now]

close_trade_logs_unknown(db, context, f) ==
    LET trade_id == context.related_trade_id
    IN  IF trade_id = NoId \/ f = "close"
        THEN db
        ELSE IF trade_id \notin 1..Len(db.trades)
        THEN [db EXCEPT !.trade_history = Append(@,
                 [trade_id |-> trade_id,
                  triggering_analysis_id |-> context.analysis_id,
                  event_type |-> "close",
                  details |-> [reason |-> context.reason,
                               confidence |-> context.confidence,
                               full_payload |-> context.payload],
                  timestamp |-> db.now])]
        ELSE LET db1 ==
                   IF db.trades[trade_id].status # "closed"
                   THEN [db EXCEPT
                           !.trades[trade_id] = closed_row(@, db.now),
                           !.mutations = Append(@,
                               Mutation(trade_id, "close", context.analysis_id))]
                   ELSE db
             IN  add_trade_history(db1, trade_id, context.analysis_id, "close",
                     [reason |-> context.reason,
                      confidence |-> context.confidence,
                      full_payload |-> context.payload], f)

\* close_trade returns at once without related_trade_id; otherwise the
\* UPDATE matches no row for an unknown or closed trade, and the 'close'
\* event is then inserted.
close_trade(db, context, f) ==
    LET trade_id == context.related_trade_id
    IN  IF trade_id = NoId \/ f = "close"
        THEN db
        ELSE LET db1 ==
                   IF /\ trade_id \in 1..Len(db.trades)
                      /\ db.trades[trade_id].status # "closed"
                   THEN [db EXCEPT
                           !.trades[trade_id] = closed_row(@, db.now),
                           !.mutations = Append(@,
                               Mutation(trade_id, "close", context.analysis_id))]
                   ELSE db
             IN  add_trade_history(db1, trade_id, context.analysis_id, "close",
                     [reason |-> context.reason,
                      confidence |-> context.confidence,
                      full_payload |-> context.payload], f)

\* UPDATE trades SET <updates>, updated_at = CURRENT_TIMESTAMP
updated_row_reopen(row, stop_loss, take_profit, quantity, now) ==
    [row EXCEPT !.stop_loss = stop_loss, !.take_profit = take_profit,
                !.quantity = quantity, !.updated_at = now,
                !.status = "open"]

updated_row(row, stop_loss, take_profit, quantity, now) ==
    [row EXCEPT !.stop_loss = stop_loss, !.take_profit = take_profit,
                !.quantity = quantity, !.updated_at = now]

\* Lines 150-158 and 188-192: which of stop_loss and take_profit the
\* payload changes, the quantity after the parsed change, and whether the
\* dict 'updates' holds anything.
update_changes(trade, payload, qc) ==
    LET slNew == payload.stop_loss # Null /\ payload.stop_loss # trade.stop_loss
        tpNew == payload.take_profit # Null
                    /\ payload.take_profit # trade.take_profit
    IN  [stop_loss |-> slNew, take_profit |-> tpNew,
         quantity |-> IF qc.change # 0
                      THEN new_quantity(trade.quantity, qc.change)
                      ELSE trade.quantity,
         any |-> slNew \/ tpNew \/ qc.change # 0]

\* history_details, lines 144-147, 155-158, 171-196
update_history_details(context, trade, qc, changes) ==
    [reason |-> context.reason, confidence |-> context.confidence,
     updates |->
        [stop_loss |-> IF changes.stop_loss
                       THEN <<trade.stop_loss, context.payload.stop_loss>>
                       ELSE <<>>,
         take_profit |-> IF changes.take_profit
                         THEN <<trade.take_profit, context.payload.take_profit>>
                         ELSE <<>>,
         quantity |-> IF qc.branch = "none" THEN <<>>
                      ELSE IF qc.change = 0
                           THEN <<trade.quantity, qc.change>>
                           ELSE <<trade.quantity, qc.change, changes.quantity>>],
     details |-> context.payload.details]

\* Lines 199-204: the UPDATE, executed when 'updates' is not empty
update_written(db, trade_id, context, changes) ==
    IF changes.any
    THEN [db EXCEPT
            !.trades[trade_id] = updated_row(@,
                IF changes.stop_loss THEN context.payload.stop_loss
                ELSE @.stop_loss,
                IF changes.take_profit THEN context.payload.take_profit
                ELSE @.take_profit,
                changes.quantity, db.now),
            !.mutations = Append(@,
                Mutation(trade_id, "update", context.analysis_id))]
    ELSE db

\* Lines 206-209: the trade is fetched again and closed when its quantity
\* is 0 or less
update_closed(db, trade_id, context, f) ==
    IF db.trades[trade_id].quantity <= 0
    THEN close_trade(db,
             [analysis_id |-> context.analysis_id,
              related_trade_id |-> trade_id,
              reason |-> "Quantity reached zero after update",
              confidence |-> Null,
              payload |-> EmptyPayload], f)
    ELSE db

\* Lines 198-214: write, close, then log the update
update_applied(db, context, f, trade_id, qc, changes) ==
    IF ~changes.any /\ context.payload.details = <<>> THEN db
    ELSE IF changes.any /\ f = "update" THEN db
    ELSE IF f = "refetch"
         THEN update_written(db, trade_id, context, changes)
    ELSE add_trade_history(
             update_closed(update_written(db, trade_id, context, changes),
                           trade_id, context, f),
             trade_id, context.analysis_id, "update",
             update_history_details(context, db.trades[trade_id], qc, changes),
             f)

\* Lines 143-192 for the trade found: an exception that leaves the parsing
\* of the instruction ends the update before anything is written
update_parsed(db, context, f, trade_id, qc) ==
    IF qc.raised THEN db
    ELSE update_applied(db, context, f, trade_id, qc,
             update_changes(db.trades[trade_id], context.payload, qc))

update_trade(db, context, f) ==
    LET trade_id == fetch_trade(db, context.related_trade_id)
    IN  IF context.related_trade_id = NoId \/ trade_id = 0
        THEN db
        ELSE update_parsed(db, context, f, trade_id,
                 quantity_change(context.payload.details,
                                 db.trades[trade_id].quantity))

\* action_context, lines 50-56
action_context(analysis_record) ==
    [analysis_id |-> analysis_record.analysis_id,
     reason |-> analysis_record.reason,
     confidence |-> analysis_record.confidence_score,
     related_trade_id |-> analysis_record.related_trade_id,
     payload |-> analysis_record.analysis_payload]

\* Lines 64-75: dispatch on the classification of the analysis
dispatch(db, analysis_record, f) ==
    IF analysis_record.classification = "new_trade"
    THEN open_trade(db, action_context(analysis_record), f)
    ELSE IF analysis_record.classification = "trade_update"
    THEN update_trade(db, action_context(analysis_record), f)
    ELSE IF analysis_record.classification = "trade_close"
    THEN close_trade(db, action_context(analysis_record), f)
    ELSE db

\* process_action, lines 32-78: fetch the analysis of the message and
\* dispatch on its classification.
process_action(db, action_data, f) ==
    LET found == get_analysis_by_message_id(action_data.message_id)
    IN  IF found = {} THEN db
        ELSE dispatch(db, CHOOSE r \in found : TRUE, f)

Classification(message_id) ==
    LET found == get_analysis_by_message_id(message_id)
    IN  IF found = {} THEN "<no analysis>"
        ELSE (CHOOSE r \in found : TRUE).classification

RelatedTrade(message_id) ==
    LET found == get_analysis_by_message_id(message_id)
    IN  IF found = {} THEN NoId
        ELSE (CHOOSE r \in found : TRUE).related_trade_id

AnalysisId(message_id) ==
    LET found == get_analysis_by_message_id(message_id)
    IN  IF found = {} THEN 0
        ELSE (CHOOSE r \in found : TRUE).analysis_id

(***************************************************************************)
(* The Redis lists (src/commons/redis/redis_client.py), by name.           *)
(***************************************************************************)
MESSAGE_QUEUE == "message_queue"
TRADE_ACTIONS_QUEUE == "trade_actions"

QueueNames == {MESSAGE_QUEUE, TRADE_ACTIONS_QUEUE}

redis == [message_queue |-> message_queue, trade_actions |-> trade_actions]

\* push_to_queue, lines 44-52: LPUSH puts the value at the left end of the
\* list of that name
push_to_queue_rpush(r, queue_name, value) ==
    [r EXCEPT ![queue_name] = Append(@, value)]

push_to_queue(r, queue_name, value) ==
    [r EXCEPT ![queue_name] = <<value>> \o @]

\* pop_from_queue, lines 62-73: BRPOP takes the value at the right end of
\* the list of that name; on an empty list it waits for 'timeout' seconds
\* and returns None, a timeout of 0 meaning that it waits for ever
pop_from_queue(r, queue_name, timeout) ==
    IF r[queue_name] = <<>>
    THEN [blocks |-> timeout = 0, value |-> Null, redis |-> r]
    ELSE [blocks |-> FALSE,
          value |-> r[queue_name][Len(r[queue_name])],
          redis |-> [r EXCEPT ![queue_name] = SubSeq(@, 1, Len(@) - 1)]]

\* timeout=1 of the pop in both run loops (processor.py 319,
\* trade_manager.py 267)
run_timeout == 1

\* A call of push_to_queue on one of the lists.  The payloads are numbered
\* in the order in which they are pushed.
Push(queue_name) ==
    /\ delivered < MaxPushes
    /\ \E out \in {push_to_queue(redis, queue_name, delivered + 1)} :
        /\ message_queue' = out[MESSAGE_QUEUE]
        /\ trade_actions' = out[TRADE_ACTIONS_QUEUE]
    /\ delivered' = delivered + 1
    /\ last' = [op |-> "push_to_queue", queue_name |-> queue_name,
                value |-> delivered + 1]
    /\ UNCHANGED <<messages, analyses_coll, trades, trade_history, clock,
                   faults, calls, runs, mutations, walk, loops,
                   messages_table, active_trades>>

\* A call of pop_from_queue on one of the lists that returns
Pop(queue_name) ==
    /\ \E out \in {pop_from_queue(redis, queue_name, run_timeout)} :
        /\ ~out.blocks
        /\ message_queue' = out.redis[MESSAGE_QUEUE]
        /\ trade_actions' = out.redis[TRADE_ACTIONS_QUEUE]
        /\ last' = [op |-> "pop_from_queue", queue_name |-> queue_name,
                    value |-> out.value]
    /\ UNCHANGED <<messages, analyses_coll, trades, trade_history, clock,
                   faults, delivered, calls, runs, mutations, walk, loops,
                   messages_table, active_trades>>

(***************************************************************************)
(* The consumer loops MessageProcessor.run and TradeManager.run: "while    *)
(* True: try: pop, handle; except Exception: log".                         *)
(***************************************************************************)
Loops == {"Processor", "TradeManager"}

\* The exception that leaves process_message: its own "except Exception"
\* (lines 311-312) ends every failure of the statements inside it, and
\* store_analysis ends its own (lines 256-257).
process_message_raises == "none"

\* The exception that leaves process_action for a payload that carries a
\* message_id: "except Exception", lines 77-78.
process_action_raises == "none"

\* What pop_from_queue raises when Redis cannot be reached: the
\* ConnectionError of each of the three attempts is re-raised (lines 71-73)
\* and tenacity ends the attempts with a RetryError.
pop_from_queue_raises == "RetryError"

\* "except Exception" of run (processor.py 323-325, trade_manager.py
\* 274-275): the iteration ends and "while True" starts the next one.
run_survives_connection_only(exc) == exc \in {"none", "ConnectionError"}

run_survives(exc) == exc \in {"none", "ConnectionError", "RetryError"}

\* The loop after an iteration that raised exc into run
Polled(loop, exc) ==
    [loops EXCEPT ![loop] = [alive |-> run_survives(exc)]]

\* An iteration of run whose pop raises: nothing is popped
PopError(loop) ==
    /\ loops[loop].alive
    /\ faults < MaxFaults
    /\ faults' = faults + 1
    /\ loops' = Polled(loop, pop_from_queue_raises)
    /\ last' = [op |-> "pop_error", message_id |-> 0, analysis_id |-> 0,
                trade_id |-> NoId, f |-> pop_from_queue_raises, loop |-> loop]
    /\ UNCHANGED <<active_trades, procVars, tmVars, trade_actions>>

\* The payload that TradeManager.run pops next has an analysis of one of
\* the given classifications.
Popped(classifications) ==
    /\ loops["TradeManager"].alive
    /\ trade_actions # <<>>
    /\ clock < MaxActions
    /\ Classification(pop_from_queue(redis, TRADE_ACTIONS_QUEUE,
                                     run_timeout).value.message_id)
           \in classifications

\* One iteration of TradeManager.run: pop the payload and process_action;
\* f is the statement of the iteration that fails (a statement the
\* iteration executes: its failure changes the outcome).
Handle(fs) ==
    /\ \E f \in fs :
        /\ f # "none" => faults < MaxFaults
        /\ faults' = IF f = "none" THEN faults ELSE faults + 1
        /\ LET action_data == pop_from_queue(redis, TRADE_ACTIONS_QUEUE,
                                             run_timeout).value
               db == [trades |-> trades, trade_history |-> trade_history,
                      mutations |-> mutations, now |-> clock + 1]
           IN  \E out \in {process_action(db, action_data, f)} :
               /\ f # "none" => out # process_action(db, action_data, "none")
               /\ trades' = out.trades
               /\ trade_history' = out.trade_history
               /\ mutations' = out.mutations
               /\ last' = [op |-> Classification(action_data.message_id),
                           message_id |-> action_data.message_id,
                           analysis_id |-> AnalysisId(action_data.message_id),
                           trade_id |-> RelatedTrade(action_data.message_id),
                           f |-> f]
    /\ trade_actions' = pop_from_queue(redis, TRADE_ACTIONS_QUEUE,
                                       run_timeout).redis[TRADE_ACTIONS_QUEUE]
    /\ clock' = clock + 1
    /\ loops' = Polled("TradeManager", process_action_raises)
    /\ UNCHANGED <<active_trades, procVars, active_trades>>

OpenTrade ==
    /\ Popped({"new_trade"})
    /\ Handle({"none", "insert", "history_create"})

UpdateTrade ==
    /\ Popped({"trade_update"})
    /\ Handle({"none", "update", "refetch", "close", "history_update",
               "history_close"})

CloseTrade ==
    /\ Popped({"trade_close"})
    /\ Handle({"none", "close", "history_close"})

IgnoreAction ==
    /\ Popped({"irrelevant", "other", "hold", "<no analysis>"})
    /\ Handle({"none"})

\* The instructions given to update_trade, one after the other, for the
\* trade opened from the analysis of message 1 (sizing 'large').
Instructions ==
    {<<W("trim"), Pct(N(50))>>, <<W("trim"), Pct(N(58))>>,
     <<W("trim"), Pct(N(70))>>, <<W("scale"), W("out"), Pct(N(25))>>,
     <<W("scale"), W("in"), Pct(N(10))>>, <<W("add"), N(40)>>,
     <<W("add"), N(80)>>, <<W("trim"), N(3)>>,
     <<W("trim"), W("a"), W("bit")>>, <<W("add"), W("more")>>,
     <<W("trim"), Pct(W("half"))>>, <<W("add"), W("some"), Pct(W(""))>>}

\* process_action for the trade action of message 1, nothing failing
OpenFirst ==
    /\ trades = <<>>
    /\ \E out \in {process_action(
                       [trades |-> trades, trade_history |-> trade_history,
                        mutations |-> mutations, now |-> clock + 1],
                       [message_id |-> 1], "none")} :
        /\ trades' = out.trades
        /\ trade_history' = out.trade_history
        /\ mutations' = out.mutations
    /\ clock' = clock + 1
    /\ last' = [op |-> "new_trade", message_id |-> 1,
                analysis_id |-> AnalysisId(1), trade_id |-> NoId, f |-> "none"]
    /\ UNCHANGED <<active_trades, procVars, trade_actions, faults, loops>>

\* update_trade for trade 1 with an analysis that carries the instruction
\* 'details' and neither stop_loss nor take_profit, nothing failing
UpdateWith(details) ==
    /\ trades # <<>>
    /\ clock < MaxActions
    /\ \E out \in {update_trade(
                       [trades |-> trades, trade_history |-> trade_history,
                        mutations |-> mutations, now |-> clock + 1],
                       [analysis_id |-> 200 + clock, reason |-> "r",
                        confidence |-> 1, related_trade_id |-> 1,
                        payload |-> Upd(Null, details)], "none")} :
        /\ trades' = out.trades
        /\ trade_history' = out.trade_history
        /\ mutations' = out.mutations
    /\ clock' = clock + 1
    /\ last' = [op |-> "update_trade", message_id |-> 0,
                analysis_id |-> 200 + clock, trade_id |-> 1, f |-> "none",
                details |-> details, quantity |-> trades[1].quantity]
    /\ UNCHANGED <<active_trades, procVars, trade_actions, faults, loops>>

\* queue_trade_action (processor.py): lpush of the payload for a message id.
\* The 'analysis' member of the payload is never read by the consumer.
PushAction(message_id) ==
    /\ Len(trade_actions) < MaxActionQueue
    /\ clock + Len(trade_actions) < MaxActions   \* it will be handled
    /\ trade_actions' = push_to_queue(redis, TRADE_ACTIONS_QUEUE,
                          [message_id |-> message_id])[TRADE_ACTIONS_QUEUE]
    /\ last' = [op |-> "push", message_id |-> message_id, analysis_id |-> 0,
                trade_id |-> NoId, f |-> "none"]
    /\ UNCHANGED <<active_trades, procVars, tmVars, faults, loops>>

(***************************************************************************)
(* Processor (src/processor/processor.py)                                  *)
(***************************************************************************)
\* The raw_messages collection.  No code of the pipeline inserts into it;
\* the Processor only flips 'processed'.
Message(content) == [content |-> content, processed |-> FALSE]

StoredMessages == (1 :> Message("buy")) @@ (5 :> Message("trim"))
                    @@ (11 :> Message("out")) @@ (NoAnalysis :> Message("hi"))
                    @@ (17 :> Message("  "))

Absent == 18           \* a message id that is not in raw_messages

ListenerIds == DOMAIN StoredMessages \cup {Absent}

strip_nothing(content) == content

\* content.strip()
strip(content) == IF content \in {"", "  "} THEN "" ELSE content

\* What the external classifier call produces: a parsed JSON object with an
\* action_type, or a failure (non-JSON output, no action_type, transport
\* error), which analyze_message turns into error_resp.
Response(action_type, related_trade_id) ==
    [action_type |-> action_type, related_trade_id |-> related_trade_id,
     reason |-> "ok"]

error_resp == [action_type |-> "other", related_trade_id |-> Null,
               reason |-> "Error"]

Responses ==
    {Response("new_trade", Null), Response("trade_update", 1),
     Response("trade_close", 0), Response("irrelevant", Null),
     Response("hold", Null)}

\* A reply that is not JSON, has no action_type, or a transport error
Failure == [action_type |-> NoKey, related_trade_id |-> Null, reason |-> "Error"]

ClassifierOutcomes == Responses \cup {Failure}

stop_after_attempt == 3    \* @retry(stop=stop_after_attempt(3)), line 66

\* analyze_message, lines 66-139.  The try/except of lines 73-139 turns
\* every failure of the call into the return value error_resp, so no attempt
\* lets an exception out and @retry, which repeats an attempt only on an
\* exception, never makes a second one: one invocation, one classifier call.
analyze_message_unnormalized(outcome) == outcome

analyze_message(outcome) ==
    IF outcome.action_type = NoKey THEN error_resp ELSE outcome

\* Index of the first document matching {"message_id": int(message_id)},
\* 0 when none matches.
find_one_str(coll, message_id) == 0

find_one(coll, message_id) ==
    IF \E i \in 1..Len(coll) : coll[i].message_id = message_id
    THEN CHOOSE i \in 1..Len(coll) :
            /\ coll[i].message_id = message_id
            /\ \A j \in 1..(i - 1) : coll[j].message_id # message_id
    ELSE 0

\* The document built by store_analysis, lines 224-248
analysis_doc(message_id, analysis, now) ==
    [message_id |-> message_id,
     action_type |-> analysis.action_type,
     related_trade_id |-> IF analysis.related_trade_id \in {Null, 0}
                          THEN Null ELSE analysis.related_trade_id,
     reason |-> analysis.reason,
     analysis_payload |-> analysis,
     analysis_timestamp |-> now]

\* store_analysis, lines 249-253: update_one(filter, {"$set": doc}, upsert)
store_analysis(coll, message_id, analysis, now) ==
    LET doc == analysis_doc(message_id, analysis, now)
        i == find_one(coll, message_id)
    IN  IF i = 0 THEN Append(coll, doc) ELSE [coll EXCEPT ![i] = doc]

\* "if cached: ... else:", lines 294-304: the classifier runs on a miss
cache_miss_always(cached) == TRUE

cache_miss(cached) == cached = 0

Actionable_or_other == {"new_trade", "trade_update", "trade_close", "other"}

\* 'if analysis["action_type"] in (...)', line 306
Actionable == {"new_trade", "trade_update", "trade_close"}

ProcFaults == {"store", "push", "mark"}

TotalRuns == LET ids == DOMAIN runs
                 RECURSIVE Sum(_)
                 Sum(S) == IF S = {} THEN 0
                           ELSE LET x == CHOOSE x \in S : TRUE
                                IN  runs[x].n + Sum(S \ {x})
             IN  Sum(ids)

\* The documents of the MongoDB collection trades that load_todays_trades
\* reads (no statement of the repository writes this collection): times
\* before today_start lie on an earlier day.
TradeDoc(trade_id, status, created_at) ==
    [trade_id |-> trade_id, status |-> status, created_at |-> created_at]

today_start == 10

trades_coll ==
    <<TradeDoc(1, "open", 5), TradeDoc(2, "closed", 12),
      TradeDoc(3, "pending_open", 11), TradeDoc(4, "open", 15)>>

\* find({"created_at": {"$gte": today_start}}, projection)
\*     .sort("created_at", -1)
load_todays_trades(coll) ==
    LET todays == {i \in 1..Len(coll) : coll[i].created_at >= today_start}
        later(j, i) == \/ coll[j].created_at > coll[i].created_at
                       \/ /\ coll[j].created_at = coll[i].created_at
                          /\ j < i
    IN  [k \in 1..Cardinality(todays) |->
            LET i == CHOOSE i \in todays :
                         Cardinality({j \in todays : later(j, i)}) = k - 1
            IN  [trade_id |-> coll[i].trade_id, status |-> coll[i].status]]

\* The trade snapshots handed to the classifier by process_message for a
\* message id, lines 300-303: one on a cache miss, none otherwise.
snapshots_passed(message_id) ==
    IF /\ message_id \in DOMAIN messages
       /\ strip(messages[message_id].content) # ""
       /\ cache_miss(find_one(analyses_coll, message_id))
    THEN <<load_todays_trades(trades_coll)>>
    ELSE <<>>

\* One iteration of MessageProcessor.run that pops a message id:
\* process_message, lines 274-312.
ProcessMessage ==
    /\ loops["Processor"].alive
    /\ message_queue # <<>>
    /\ loops' = Polled("Processor", process_message_raises)
    /\ LET message_id == pop_from_queue(redis, MESSAGE_QUEUE,
                                        run_timeout).value
           now == TotalRuns + 1
       IN
       /\ message_queue' = pop_from_queue(redis, MESSAGE_QUEUE,
                                          run_timeout).redis[MESSAGE_QUEUE]
       /\ \E f \in ProcFaults \cup {"none"}, outcome \in ClassifierOutcomes :
          /\ f # "none" => faults < MaxFaults
          /\ faults' = IF f = "none" THEN faults ELSE faults + 1
          /\ last' = [op |-> "process_message", message_id |-> message_id,
                      analysis_id |-> 0, trade_id |-> NoId, f |-> f,
                      outcome |-> outcome.action_type,
                      todays_trades |-> snapshots_passed(message_id)]
          /\ IF message_id \notin DOMAIN messages
             THEN /\ outcome = Failure /\ f = "none"
                  /\ UNCHANGED <<messages, analyses_coll, calls, runs,
                                 trade_actions>>
             ELSE IF strip(messages[message_id].content) = ""
             THEN /\ outcome = Failure /\ f \in {"none", "mark"}
                  /\ messages' = IF f = "mark" THEN messages
                                 ELSE [messages EXCEPT
                                          ![message_id].processed = TRUE]
                  /\ runs' = [runs EXCEPT ![message_id].n = @ + 1]
                  /\ UNCHANGED <<analyses_coll, calls, trade_actions>>
             ELSE
             LET cached == find_one(analyses_coll, message_id)
                 miss == cache_miss(cached)
                 analysis == IF miss
                             THEN analyze_message(outcome)
                             ELSE analyses_coll[cached].analysis_payload
                 stored == miss /\ f # "store"
                 coll == IF stored
                         THEN store_analysis(analyses_coll, message_id,
                                             analysis, now)
                         ELSE analyses_coll
                 queued == analysis.action_type \in Actionable
             IN  /\ ~miss => outcome = Failure /\ f # "store"
                 /\ queued => Len(trade_actions) < MaxActionQueue
                 /\ ~queued => f # "push"
                 /\ analyses_coll' = coll
                 /\ calls' = IF miss
                             THEN [calls EXCEPT ![message_id] = @ + 1]
                             ELSE calls
                 /\ runs' = [runs EXCEPT ![message_id] =
                        [n |-> @.n + 1,
                         first |-> IF @.n = 0 /\ stored
                                   THEN <<analysis_doc(message_id, analysis,
                                                       now)>>
                                   ELSE @.first]]
                 /\ trade_actions' =
                        IF queued /\ f # "push"
                        THEN push_to_queue(redis, TRADE_ACTIONS_QUEUE,
                                 [message_id |-> message_id])[
                                     TRADE_ACTIONS_QUEUE]
                        ELSE trade_actions
                 /\ messages' = IF f \in {"push", "mark"} THEN messages
                                ELSE [messages EXCEPT
                                         ![message_id].processed = TRUE]
    /\ UNCHANGED <<tmVars, delivered, walk, messages_table, active_trades>>

\* The Discord message the listener is handed for an id: its text and the
\* message it replies to (message.reference is absent on these).
DiscordMessage(message_id) ==
    [content |-> IF message_id \in DOMAIN StoredMessages
                 THEN StoredMessages[message_id].content ELSE "new",
     parent_id |-> Null]

\* INSERT OR REPLACE INTO messages: the row of that id becomes the new row.
insert_or_replace(table, message_id, row) ==
    [id \in DOMAIN table \cup {message_id} |->
        IF id = message_id THEN row ELSE table[id]]

\* on_message: the listener stores the message it is handed, stamped with
\* its own clock and processed = False, then pushes its id (at-least-once:
\* the same id may be handed over again).
Deliver(message_id) ==
    /\ delivered < MaxDeliveries
    /\ Len(message_queue) < MaxRawQueue
    /\ message_queue' = push_to_queue(redis, MESSAGE_QUEUE,
                                      message_id)[MESSAGE_QUEUE]
    /\ delivered' = delivered + 1
    /\ last' = [op |-> "deliver", message_id |-> message_id, analysis_id |-> 0,
                trade_id |-> NoId, f |-> "none"]
    /\ messages_table' =
           insert_or_replace(messages_table, message_id,
               [timestamp |-> delivered + 1,
                content |-> DiscordMessage(message_id).content,
                parent_id |-> DiscordMessage(message_id).parent_id,
                processed |-> FALSE])
    /\ UNCHANGED <<messages, analyses_coll, calls, runs, trade_actions,
                   tmVars, faults, walk, loops, active_trades>>

(***************************************************************************)
(* fetch_reply_chain (processor.py, lines 152-203), one action per loop    *)
(* iteration and per add_message call.  The documents of raw_messages that *)
(* it reads carry parent_id and timestamp.                                 *)
(***************************************************************************)
max_reply_depth == 10  \* set by MessageProcessor.__init__, read nowhere

Reply(content, parent_id, timestamp) ==
    [content |-> content, processed |-> FALSE, parent_id |-> parent_id,
     timestamp |-> timestamp]

\* a thread: 2 and 4 reply to 1, 3 replies to 2; 4 was sent before 3
Thread == (1 :> Reply("a", Null, 10)) @@ (2 :> Reply("b", 1, 20))
            @@ (3 :> Reply("c", 2, 40)) @@ (4 :> Reply("d", 1, 30))

\* 1 is its own parent
SelfReply == (1 :> Reply("a", 1, 10)) @@ (2 :> Reply("b", 1, 20))

\* parent links 1 -> 2 -> 3 -> 1, and 4 replies into the cycle
Cycle == (1 :> Reply("a", 2, 10)) @@ (2 :> Reply("b", 3, 20))
            @@ (3 :> Reply("c", 1, 30)) @@ (4 :> Reply("d", 2, 40))

\* 2 replies to 1, which is not stored
Orphan == (2 :> Reply("b", 1, 20)) @@ (3 :> Reply("c", 2, 30))
            @@ (4 :> Reply("d", 3, 40))

\* an acyclic parent chain of max_reply_depth + 2 messages, 1 is the root
Deep == [i \in 1..(max_reply_depth + 2) |->
            Reply("x", IF i = 1 THEN Null ELSE i - 1, 10 * i)]

ChainStores == {Thread, SelfReply, Cycle, Orphan, Deep}

Unstored == 99         \* an id that no store holds

\* "while current_id": None and 0 end the walk
Falsy(id) == id \in {Null, 0}

NoWalk == [pc |-> "idle"]

\* the locals on entry, lines 155-159
StartWalk(message_id) ==
    [pc |-> "up", message_id |-> message_id, current_id |-> message_id,
     visited |-> {}, parent_chain_ids |-> <<>>, pending |-> <<>>,
     chain |-> <<>>, result |-> <<>>, steps |-> 0]

\* "while current_id and current_id not in visited", line 160
loop_continues_unvisited(current_id, visited) == ~Falsy(current_id)

loop_continues(current_id, visited) ==
    ~Falsy(current_id) /\ current_id \notin visited

\* One iteration of the upward loop, lines 161-166
WalkUp ==
    /\ walk.pc = "up"
    /\ loop_continues(walk.current_id, walk.visited)
    /\ LET current_id == walk.current_id
           found == current_id \in DOMAIN messages
       IN  walk' = [walk EXCEPT
               !.visited = @ \cup {current_id},
               !.parent_chain_ids = Append(@, current_id),
               !.pc = IF found THEN "up" ELSE "root",
               !.current_id = IF found THEN messages[current_id].parent_id
                              ELSE current_id,
               !.steps = @ + 1]
    /\ UNCHANGED <<messages, analyses_coll, message_queue, delivered, calls,
                   runs, trade_actions, tmVars, faults, last, loops,
                   messages_table, active_trades>>

\* After the loop, lines 168-175: no id gathered returns "", otherwise the
\* last id gathered is the root from which the thread is read downwards.
FindRoot ==
    /\ \/ walk.pc = "root"
       \/ /\ walk.pc = "up"
          /\ ~loop_continues(walk.current_id, walk.visited)
    /\ walk' = IF walk.parent_chain_ids = <<>>
               THEN [walk EXCEPT !.pc = "done", !.result = <<>>,
                                 !.steps = @ + 1]
               ELSE [walk EXCEPT
                       !.pc = "down",
                       !.visited = {},
                       !.pending = <<[msg_id |-> walk.parent_chain_ids[
                                          Len(walk.parent_chain_ids)],
                                      level |-> 0]>>,
                       !.steps = @ + 1]
    /\ UNCHANGED <<messages, analyses_coll, message_queue, delivered, calls,
                   runs, trade_actions, tmVars, faults, last, loops,
                   messages_table, active_trades>>

\* The ids of a set of messages in ascending timestamp order (messages of
\* equal timestamp in the order of their ids)
ByTimestamp(ids) ==
    LET before(j, i) == \/ messages[j].timestamp < messages[i].timestamp
                        \/ /\ messages[j].timestamp = messages[i].timestamp
                           /\ j < i
    IN  [k \in 1..Cardinality(ids) |->
            CHOOSE i \in ids :
                Cardinality({j \in ids : before(j, i)}) = k - 1]

\* list(messages_coll.find({"parent_id": msg_id}).sort("timestamp", 1))
replies(msg_id) ==
    ByTimestamp({i \in DOMAIN messages : messages[i].parent_id = msg_id})

\* One call add_message(msg_id, level), lines 177-191.  The calls that the
\* for loop is still to make are kept in 'pending', the next one first.
AddMessage ==
    /\ walk.pc = "down"
    /\ walk.pending # <<>>
    /\ LET msg_id == Head(walk.pending).msg_id
           level == Head(walk.pending).level
           rest == Tail(walk.pending)
       IN  walk' =
             IF msg_id \in walk.visited
             THEN [walk EXCEPT !.pending = rest, !.steps = @ + 1]
             ELSE IF msg_id \notin DOMAIN messages
             THEN [walk EXCEPT !.visited = @ \cup {msg_id},
                               !.pending = rest, !.steps = @ + 1]
             ELSE [walk EXCEPT
                     !.visited = @ \cup {msg_id},
                     !.chain = Append(@,
                         [message_id |-> msg_id,
                          content |-> messages[msg_id].content,
                          timestamp |-> messages[msg_id].timestamp,
                          level |-> level]),
                     !.pending =
                         [i \in 1..Len(replies(msg_id)) |->
                             [msg_id |-> replies(msg_id)[i],
                              level |-> level + 1]] \o rest,
                     !.steps = @ + 1]
    /\ UNCHANGED <<messages, analyses_coll, message_queue, delivered, calls,
                   runs, trade_actions, tmVars, faults, last, loops,
                   messages_table, active_trades>>

sort_chain_unsorted(chain) == chain

\* chain.sort(key=timestamp): a stable sort, the item at position k is the
\* one that k - 1 items precede by timestamp or, at equal timestamp, by
\* position
sort_chain(chain) ==
    LET before(j, i) == \/ chain[j].timestamp < chain[i].timestamp
                        \/ /\ chain[j].timestamp = chain[i].timestamp
                           /\ j < i
    IN  [k \in 1..Len(chain) |->
            chain[CHOOSE i \in 1..Len(chain) :
                Cardinality({j \in 1..Len(chain) : before(j, i)}) = k - 1]]

\* "\n".join('  ' * level + content): one line per item, a line being its
\* indentation and its text
formatted_chain(chain) ==
    [i \in 1..Len(chain) |->
        [indent |-> 2 * chain[i].level, text |-> chain[i].content]]

\* Lines 193-198: sort, format and return
ReturnChain ==
    /\ walk.pc = "down"
    /\ walk.pending = <<>>
    /\ walk' = [walk EXCEPT !.pc = "done",
                            !.chain = sort_chain(@),
                            !.result = formatted_chain(sort_chain(walk.chain)),
                            !.steps = @ + 1]
    /\ UNCHANGED <<messages, analyses_coll, message_queue, delivered, calls,
                   runs, trade_actions, tmVars, faults, last, loops,
                   messages_table, active_trades>>

(***************************************************************************)
(* Specifications                                                          *)
(***************************************************************************)
InitPipeline ==
    /\ analyses_coll = <<>>
    /\ message_queue = <<>>
    /\ trade_actions = <<>>
    /\ trades = <<>>
    /\ trade_history = <<>>
    /\ clock = 0
    /\ faults = 0
    /\ delivered = 0
    /\ calls = [m \in DOMAIN StoredMessages |-> 0]
    /\ runs = [m \in DOMAIN StoredMessages |-> [n |-> 0, first |-> <<>>]]
    /\ mutations = <<>>
    /\ last = [op |-> "init", message_id |-> 0, analysis_id |-> 0,
               trade_id |-> NoId, f |-> "none"]
    /\ loops = [loop \in Loops |-> [alive |-> TRUE]]
    /\ messages_table = <<>>
    /\ active_trades = <<>>

Init ==
    /\ messages = StoredMessages
    /\ walk = NoWalk
    /\ InitPipeline

TradeManagerStep ==
    \/ OpenTrade
    \/ UpdateTrade
    \/ CloseTrade
    \/ IgnoreAction

\* The whole pipeline: listener, Processor and TradeManager.
Next ==
    \/ \E m \in ListenerIds : Deliver(m)
    \/ ProcessMessage
    \/ TradeManagerStep

Spec == Init /\ [][Next]_vars

\* The two consumer loops never stop polling: a payload waiting in a queue
\* is popped and handled.  Nothing obliges the listener to push an id
\* again.
SpecLive ==
    /\ Init /\ [][Next]_vars
    /\ WF_vars(ProcessMessage)
    /\ WF_vars(TradeManagerStep)

\* The pipeline for four messages, with a Redis that may fail a pop of
\* either loop.
RunIds == {1, 5, 11, NoAnalysis}

NextRun ==
    \/ \E m \in RunIds : Deliver(m)
    \/ ProcessMessage
    \/ TradeManagerStep
    \/ \E loop \in Loops : PopError(loop)

SpecRun == Init /\ [][NextRun]_vars

\* The Redis client alone: pushes and pops on the two lists in any order.
NextQueue ==
    \/ \E queue_name \in QueueNames : Push(queue_name)
    \/ \E queue_name \in QueueNames : Pop(queue_name)

SpecQueue == Init /\ [][NextQueue]_vars

\* update_trade applied to one trade with any of the instructions.
NextQty ==
    \/ OpenFirst
    \/ \E details \in Instructions : UpdateWith(details)

SpecQty == Init /\ [][NextQty]_vars

\* The TradeManager fed with the trade action of any message.
NextTM ==
    \/ \E m \in MsgIds \cup {NoAnalysis} : PushAction(m)
    \/ TradeManagerStep

SpecTM == Init /\ [][NextTM]_vars

(***************************************************************************)
(* parse_expiration_date (processor.py, lines 30-55).  A date is a record  *)
(* [year, month, day]; the dates that date.today() returns here are those  *)
(* from Monday 2024-12-23 on, so that timedelta crosses a month and a year.*)
(* An isoformat / '%Y-%m-%d' string is the tuple <<year, month, day>>.     *)
(***************************************************************************)
Date(year, month, day) == [year |-> year, month |-> month, day |-> day]

\* date.fromordinal, counted from 2024-12-23 (ordinal 0)
fromordinal(n) ==
    IF n <= 8 THEN Date(2024, 12, 23 + n) ELSE Date(2025, 1, n - 8)

\* date.toordinal on the same scale
toordinal(d) == IF d.year = 2024 THEN d.day - 23 ELSE d.day + 8

\* date.weekday(): Monday is 0, Friday is 4
weekday(d) == toordinal(d) % 7

\* date + timedelta(days=k)
plus_days(d, k) == fromordinal(toordinal(d) + k)

\* date.isoformat() and strftime('%Y-%m-%d')
isoformat(d) == <<d.year, d.month, d.day>>

Todays == {fromordinal(n) : n \in 0..13}

\* The values passed as date_str.  A text is what it contains of the
\* phrases looked for (in the case it was written in) and the shape in
\* which it is written, if it is written as a date; a value that is not a
\* string has kind "int".
Phrases == {"this week", "End of Week", "0DTE", "today", "tomorrow"}

Text(contains, written) ==
    [kind |-> "str", contains |-> contains, written |-> written]

NotADate == <<>>

Written(shape, a, b, c) == <<[shape |-> shape, a |-> a, b |-> b, c |-> c]>>

DateStrs ==
    {Text(contains, NotADate) : contains \in SUBSET Phrases}
      \cup {Text({}, Written("Y-m-d", 2025, 1, 17)),
            Text({}, Written("m/d/Y", 1, 17, 2025)),
            Text({}, Written("m/d/y", 1, 17, 25)),
            Text({}, Written("m/d/y", 12, 31, 99)),
            Text({}, Written("b d, Y", 1, 5, 2025)),
            Text({}, Written("m/d/Y", 13, 45, 2025)),
            [kind |-> "int", contains |-> {}, written |-> NotADate]}

\* str.lower() on the phrases a text contains
lower(contains) ==
    {CASE ph = "End of Week" -> "end of week"
       [] ph = "0DTE" -> "0dte"
       [] OTHER -> ph : ph \in contains}

\* datetime.strptime(date_str, fmt): the date read, or <<>> for ValueError.
\* %Y takes four digits and %y two; %y maps 69-99 to 19xx and 0-68 to 20xx.
strptime(written, fmt) ==
    IF written = NotADate THEN <<>>
    ELSE LET w == written[1]
             read == CASE fmt = "%Y-%m-%d" /\ w.shape = "Y-m-d"
                              -> <<Date(w.a, w.b, w.c)>>
                       [] fmt = "%m/%d/%Y" /\ w.shape = "m/d/Y"
                              -> <<Date(w.c, w.a, w.b)>>
                       [] fmt = "%m/%d/%y" /\ w.shape = "m/d/y"
                              -> <<Date(IF w.c >= 69 THEN 1900 + w.c
                                        ELSE 2000 + w.c, w.a, w.b)>>
                       [] fmt = "%b %d, %Y" /\ w.shape = "b d, Y"
                              -> <<Date(w.c, w.a, w.b)>>
                       [] OTHER -> <<>>
         IN  IF read # <<>> /\ read[1].month \in 1..12
                            /\ read[1].day \in 1..31
             THEN read ELSE <<>>

Formats == <<"%Y-%m-%d", "%m/%d/%Y", "%m/%d/%y", "%b %d, %Y">>

\* timedelta(days=(4 - today.weekday() + 7) % 7), line 41
days_to_friday_next_week(today) == 7 + ((4 - weekday(today) + 7) % 7)

days_to_friday(today) == (4 - weekday(today) + 7) % 7

parse_expiration_date(date_str, today) ==
    IF date_str.kind # "str" THEN isoformat(today)
    ELSE IF lower(date_str.contains) \cap {"this week", "end of week"} # {}
    THEN isoformat(plus_days(today, days_to_friday(today)))
    ELSE IF lower(date_str.contains) \cap {"0dte", "today"} # {}
    THEN isoformat(today)
    ELSE IF "tomorrow" \in lower(date_str.contains)
    THEN isoformat(plus_days(today, 1))
    ELSE IF \E i \in 1..Len(Formats) :
                strptime(date_str.written, Formats[i]) # <<>>
    THEN LET i == CHOOSE i \in 1..Len(Formats) :
                     /\ strptime(date_str.written, Formats[i]) # <<>>
                     /\ \A j \in 1..(i - 1) :
                            strptime(date_str.written, Formats[j]) = <<>>
         IN  isoformat(strptime(date_str.written, Formats[i])[1])
    ELSE isoformat(today)

\* One call of parse_expiration_date on a day 'today'
ParseExpirationDate(date_str, today) ==
    /\ last' = [op |-> "parse_expiration_date", message_id |-> 0,
                analysis_id |-> 0, trade_id |-> NoId, f |-> "none",
                date_str |-> date_str, today |-> today,
                result |-> parse_expiration_date(date_str, today)]
    /\ UNCHANGED <<active_trades, procVars, tmVars, trade_actions, faults, loops>>

NextDate ==
    \E date_str \in DateStrs, today \in Todays :
        ParseExpirationDate(date_str, today)

SpecDate == Init /\ [][NextDate]_vars

(***************************************************************************)
(* The regex-based TradeManager (src/trade_manager.py).  A message text is *)
(* the sequence of its words; a Trade keeps the fields that                *)
(* process_message reads or writes after the trade was parsed.  Times are  *)
(* minutes.                                                                *)
(***************************************************************************)
RED_ALERT == ":RedAlert:"

BotContents ==
    {<<RED_ALERT, "AAPL">>, <<RED_ALERT, "TSLA">>, <<"trim">>, <<"out">>,
     <<"AAPL", "took", "profits">>, <<"hit", "sl">>, <<"nice">>}

\* str.upper() of a word
upper(word) ==
    CASE word = "trim" -> "TRIM"
      [] word = "out" -> "OUT"
      [] word = "took" -> "TOOK"
      [] word = "profits" -> "PROFITS"
      [] word = "hit" -> "HIT"
      [] word = "sl" -> "SL"
      [] word = "nice" -> "NICE"
      [] OTHER -> word

\* the words that [A-Z]+ and \b([A-Z]{2,5})\b match
IsSymbol(word) == word \in {"AAPL", "TSLA"}

\* 'KEY in message_upper' for a one-word key
InUpper(content, keys) ==
    \E i \in 1..Len(content) : upper(content[i]) \in keys

\* '"HIT SL" in message_upper'
HitSl(content) ==
    \E i \in 1..(Len(content) - 1) :
        upper(content[i]) = "HIT" /\ upper(content[i + 1]) = "SL"

BotTrade(message_id, symbol, now) ==
    [message_id |-> message_id, symbol |-> symbol, status |-> "OPEN",
     last_update_time |-> now, updates |-> <<>>]

\* position of the trade with that key in active_trades, 0 if none
trade_index(active, message_id) ==
    IF \E i \in 1..Len(active) : active[i].message_id = message_id
    THEN CHOOSE i \in 1..Len(active) : active[i].message_id = message_id
    ELSE 0

\* _parse_new_trade, lines 40-91: the trade, or none when no symbol
\* follows the alert mark
parse_new_trade(content, message_id, now) ==
    IF \E i \in 1..(Len(content) - 1) :
           content[i] = RED_ALERT /\ IsSymbol(content[i + 1])
    THEN LET i == CHOOSE i \in 1..(Len(content) - 1) :
                     /\ content[i] = RED_ALERT /\ IsSymbol(content[i + 1])
                     /\ \A j \in 1..(i - 1) :
                            ~(content[j] = RED_ALERT /\ IsSymbol(content[j + 1]))
         IN  <<BotTrade(message_id, content[i + 1], now)>>
    ELSE <<>>

\* the status written by _handle_trade_update, lines 104-109
updated_status(status, content) ==
    IF InUpper(content, {"TRIM", "TOOK"}) THEN "TRIMMED"
    ELSE IF InUpper(content, {"OUT", "CLOSE"}) \/ HitSl(content) THEN "CLOSED"
    ELSE status

\* _handle_trade_update, lines 93-112
handle_trade_update(active, content, trade_message_id, now) ==
    IF trade_index(active, trade_message_id) = 0 THEN active
    ELSE [active EXCEPT ![trade_index(active, trade_message_id)] =
             [@ EXCEPT !.updates = Append(@, content),
                       !.status = updated_status(@, content),
                       !.last_update_time = now]]

\* max(self.active_trades.values(), key=last_update_time): the first of
\* the trades with the greatest time
latest_trade(active) ==
    CHOOSE i \in 1..Len(active) :
        /\ \A j \in 1..Len(active) :
               active[j].last_update_time <= active[i].last_update_time
        /\ \A j \in 1..(i - 1) :
               active[j].last_update_time < active[i].last_update_time

\* _handle_contextual_update, lines 114-141
handle_contextual_update(active, content, now) ==
    LET symbols == SelectSeq(content, IsSymbol)
        by_ticker == IF symbols = <<>> THEN {}
                     ELSE {i \in 1..Len(active) :
                              active[i].symbol = symbols[1]}
    IN  IF by_ticker # {}
        THEN handle_trade_update(active, content,
                 active[CHOOSE i \in by_ticker :
                            \A j \in by_ticker : j <= i].message_id, now)
        ELSE IF active = <<>> THEN active
        ELSE IF now - active[latest_trade(active)].last_update_time < 15
        THEN handle_trade_update(active, content,
                 active[latest_trade(active)].message_id, now)
        ELSE active

\* process_message, lines 18-37
bot_process_message(active, content, message_id, parent_message_id, now) ==
    IF parent_message_id # 0 /\ trade_index(active, parent_message_id) # 0
    THEN handle_trade_update(active, content, parent_message_id, now)
    ELSE IF /\ \E i \in 1..Len(content) : content[i] = RED_ALERT
            /\ parse_new_trade(content, message_id, now) # <<>>
    THEN IF trade_index(active, message_id) = 0
         THEN active \o parse_new_trade(content, message_id, now)
         ELSE [active EXCEPT ![trade_index(active, message_id)] =
                  parse_new_trade(content, message_id, now)[1]]
    ELSE handle_contextual_update(active, content, now)

\* the number of trades and of updates held
BotSize(active) ==
    LET RECURSIVE Sum(_)
        Sum(i) == IF i = 0 THEN 0 ELSE 1 + Len(active[i].updates) + Sum(i - 1)
    IN  Sum(Len(active))

\* the time of the latest update of any trade (0 without trades)
BotLatest(active) ==
    IF active = <<>> THEN 0
    ELSE active[latest_trade(active)].last_update_time

\* One call of process_message, 'elapsed' minutes after the latest update
BotProcessMessage(content, message_id, parent_message_id, elapsed) ==
    /\ BotSize(active_trades) < MaxBotMessages
    /\ BotLatest(active_trades) + elapsed <= MaxBotMinutes
    /\ active_trades' = bot_process_message(active_trades, content,
                            message_id, parent_message_id,
                            BotLatest(active_trades) + elapsed)
    /\ last' = [op |-> "bot_process_message", message_id |-> message_id,
                analysis_id |-> 0, trade_id |-> NoId, f |-> "none",
                content |-> content, parent_message_id |-> parent_message_id,
                now |-> BotLatest(active_trades) + elapsed]
    /\ UNCHANGED <<procVars, tmVars, trade_actions, faults, loops>>

NextBot ==
    \E content \in BotContents, message_id \in 1..2,
       parent_message_id \in 0..2, elapsed \in {1, 15} :
        BotProcessMessage(content, message_id, parent_message_id, elapsed)

SpecBot == Init /\ [][NextBot]_vars

\* The Processor handling message 1, and the TradeManager handling its
\* trade action and trade actions whose stored analysis is irrelevant, other
\* or of an unknown classification.
DispatchIds == {13, 22, 23}

NextDispatch ==
    \/ Deliver(1)
    \/ ProcessMessage
    \/ \E m \in DispatchIds : PushAction(m)
    \/ OpenTrade
    \/ IgnoreAction

SpecDispatch == Init /\ [][NextDispatch]_vars

\* fetch_reply_chain called with any message id on any of the stores.
InitChain ==
    /\ \E store \in ChainStores :
        /\ messages = store
        /\ \E message_id \in DOMAIN store \cup {Unstored, 0} :
               walk = StartWalk(message_id)
    /\ InitPipeline

NextChain ==
    \/ WalkUp
    \/ FindRoot
    \/ AddMessage
    \/ ReturnChain

SpecChain == InitChain /\ [][NextChain]_vars

(***************************************************************************)
(* Properties                                                              *)
(***************************************************************************)
DocsOf(message_id) ==
    {i \in 1..Len(analyses_coll) : analyses_coll[i].message_id = message_id}

\* C1: when process_message has run at least twice for a message with
\* non-empty content and the first run stored an Analysis, the stored
\* Analysis is still exactly that document and the external classifier has
\* been called exactly once for the message.
C1_ClassifyTwiceSameAnalysisOneCall ==
    \A m \in DOMAIN runs :
        (runs[m].n >= 2 /\ runs[m].first # <<>>) =>
            /\ calls[m] = 1
            /\ DocsOf(m) # {}
            /\ \A i \in DocsOf(m) : analyses_coll[i] = runs[m].first[1]

C1_Witness ==
    \E m \in DOMAIN runs :
        /\ runs[m].n >= 2 /\ runs[m].first # <<>>
        /\ calls[m] = 1
        /\ last.op = "process_message" /\ last.message_id = m

\* C2: the analysis store never holds two documents with the same
\* message_id, whatever ids were delivered and however often.
C2_OneAnalysisPerMessage ==
    \A i, j \in 1..Len(analyses_coll) :
        analyses_coll[i].message_id = analyses_coll[j].message_id => i = j

C2_Witness ==
    \E m \in DOMAIN runs :
        /\ runs[m].n >= 2
        /\ calls[m] >= 1
        /\ DocsOf(m) # {}

Count(seq, x) == Cardinality({i \in 1..Len(seq) : seq[i] = x})

\* The trade row write that a history event records
EventKey(e) == Mutation(e.trade_id, e.event_type, e.triggering_analysis_id)

HistoryKeys == [i \in 1..Len(trade_history) |-> EventKey(trade_history[i])]

Keys == {mutations[i] : i \in 1..Len(mutations)}
            \cup {HistoryKeys[i] : i \in 1..Len(HistoryKeys)}

\* Every write of a trade row has its history event and the other way round
HistoryMatchesMutations ==
    \A k \in Keys : Count(mutations, k) = Count(HistoryKeys, k)

\* C3: as long as no statement has failed, the create/update/close writes of
\* trade rows and the history events of the same type, trade and triggering
\* analysis correspond one to one.
C3_EveryMutationHasEventAndBack == faults = 0 => HistoryMatchesMutations

\* C4: also when a statement fails, no state holds a trade row write without
\* its history event or a history event without its trade row write.
C4_RowAndHistoryAtomic ==
    /\ \A k \in Keys : Count(mutations, k) <= Count(HistoryKeys, k)
    /\ \A k \in Keys : Count(HistoryKeys, k) <= Count(mutations, k)

\* C5: a step changes the status of a trade only from pending_open or open
\* to closed; a closed trade keeps its status.
C5_StatusOnlyToClosed ==
    [][\A t \in 1..Len(trades) :
          trades'[t].status # trades[t].status =>
              /\ trades[t].status \in {"pending_open", "open"}
              /\ trades'[t].status = "closed"]_vars

C5_Witness ==
    \E t \in 1..Len(trades) :
        /\ trades[t].status = "closed"
        /\ trades[t].closed_at < clock
        /\ last.op \in {"trade_update", "trade_close"}
        /\ last.trade_id = t

\* C6: the quantity of every trade is at least 0.
C6_QuantityNeverNegative ==
    \A t \in 1..Len(trades) : trades[t].quantity >= 0

\* an update whose change would have taken the quantity below 0
C6_Witness ==
    \E i \in 1..Len(trade_history) :
        /\ trade_history[i].event_type = "update"
        /\ Len(trade_history[i].details.updates.quantity) = 3
        /\ LET q == trade_history[i].details.updates.quantity
           IN  q[1] + q[2] < 0 /\ q[3] = 0

UpdateEventsToZero(t) ==
    {i \in 1..Len(trade_history) :
        /\ trade_history[i].trade_id = t
        /\ trade_history[i].event_type = "update"
        /\ Len(trade_history[i].details.updates.quantity) = 3
        /\ trade_history[i].details.updates.quantity[1] > 0
        /\ trade_history[i].details.updates.quantity[3] = 0}

CloseEvents(t) ==
    {i \in 1..Len(trade_history) :
        /\ trade_history[i].trade_id = t
        /\ trade_history[i].event_type = "close"}

CloseWrites(t) ==
    {i \in 1..Len(mutations) :
        mutations[i].trade_id = t /\ mutations[i].type = "close"}

\* C7: without failing statements, a trade that an update brought from a
\* positive quantity to 0 is closed, and it has been closed exactly once:
\* one write of closed_at and one close history event, whatever came after.
C7_ZeroClosesExactlyOnce ==
    faults = 0 =>
        \A t \in 1..Len(trades) :
            UpdateEventsToZero(t) # {} =>
                /\ trades[t].status = "closed"
                /\ Cardinality(CloseWrites(t)) = 1
                /\ Cardinality(CloseEvents(t)) = 1

IsHandled(op) == clock' = clock + 1 /\ last'.op = op

\* C8: close_trade on a trade that is already closed changes no trade row
\* and appends no history event.
C8_CloseOnClosedIsNoOp ==
    [][(/\ IsHandled("trade_close")
        /\ last'.trade_id \in 1..Len(trades)
        /\ trades[last'.trade_id].status = "closed")
       => (trades' = trades /\ trade_history' = trade_history)]_vars

\* C9: a trade_update whose analysis has no related_trade_id, or one that
\* matches no trade, changes no trade row and appends no history event.
C9_UpdateOfUnknownTradeIsNoOp ==
    [][(/\ IsHandled("trade_update")
        /\ last'.trade_id \notin 1..Len(trades))
       => (trades' = trades /\ trade_history' = trade_history)]_vars

C9_Witness ==
    /\ last.op = "trade_update"
    /\ last.trade_id # NoId
    /\ last.trade_id \notin 1..Len(trades)
    /\ Len(trades) >= 1

\* C10: an update without failing statement that takes an open trade from a
\* positive quantity to 0 leaves it closed with closed_at set and appends
\* exactly two events for it, 'update' then 'close', both triggered by the
\* analysis of the update.
C10_UpdateToZeroLogsUpdateThenClose ==
    [][\A t \in 1..Len(trades) :
        (/\ IsHandled("trade_update")
         /\ last'.f = "none"
         /\ last'.trade_id = t
         /\ trades[t].status # "closed"
         /\ trades[t].quantity > 0
         /\ trades'[t].quantity = 0)
        => LET n == Len(trade_history)
           IN  /\ trades'[t].status = "closed"
               /\ trades'[t].closed_at # NoTime
               /\ Len(trade_history') = n + 2
               /\ trade_history'[n + 1].event_type = "update"
               /\ trade_history'[n + 2].event_type = "close"
               /\ \A i \in {n + 1, n + 2} :
                    /\ trade_history'[i].trade_id = t
                    /\ trade_history'[i].triggering_analysis_id
                           = last'.analysis_id]_vars

AnalysisPayload(message_id) ==
    (CHOOSE r \in get_analysis_by_message_id(message_id) : TRUE).analysis_payload

\* C11: an update without failing statement of an existing trade whose
\* payload changes neither stop_loss nor take_profit and whose instruction
\* parses to a quantity change of 0 (also when 'details' is not empty)
\* changes no trade row and appends no history event.
C11_UnchangedUpdateIsNoOp ==
    [][\A t \in 1..Len(trades) :
        (/\ IsHandled("trade_update")
         /\ last'.f = "none"
         /\ last'.trade_id = t
         /\ LET payload == AnalysisPayload(last'.message_id)
                qc == quantity_change(payload.details, trades[t].quantity)
            IN  /\ payload.stop_loss \in {Null, trades[t].stop_loss}
                /\ payload.take_profit \in {Null, trades[t].take_profit}
                /\ ~qc.raised
                /\ qc.change = 0)
        => (trades' = trades /\ trade_history' = trade_history)]_vars

\* The quantity the sizing hint of a payload stands for
SizingHintQuantity(payload) ==
    CASE payload.sizing = "small" -> 1
      [] payload.sizing = "medium" -> 5
      [] payload.sizing = "large" -> 10
      [] OTHER -> 1

\* The step inserts exactly one trade, pending_open and sized by the hint of
\* the handled analysis, and appends exactly one 'create' event for it whose
\* triggering analysis is the opening analysis of the trade.
OpenedOneTrade ==
    LET payload == AnalysisPayload(last'.message_id)
        t == Len(trades) + 1
        n == Len(trade_history)
    IN  /\ Len(trades') = t
        /\ SubSeq(trades', 1, t - 1) = trades
        /\ trades'[t].status = "pending_open"
        /\ trades'[t].quantity = SizingHintQuantity(payload)
        /\ trades'[t].opening_analysis_id = last'.analysis_id
        /\ Len(trade_history') = n + 1
        /\ SubSeq(trade_history', 1, n) = trade_history
        /\ trade_history'[n + 1].event_type = "create"
        /\ trade_history'[n + 1].trade_id = t
        /\ trade_history'[n + 1].triggering_analysis_id
               = trades'[t].opening_analysis_id

AppliedJustBefore(analysis_id) ==
    \E i \in 1..Len(trade_history) :
        /\ trade_history[i].timestamp = clock
        /\ trade_history[i].triggering_analysis_id = analysis_id

\* C13: when no statement fails, handling the trade action of a message a
\* second time, right after it has been applied, leaves the trades table
\* and the history log as the first handling left them (so that no
\* new_trade analysis opens a second trade).
C13_SameActionTwiceAsOnce ==
    [][(/\ clock' = clock + 1
        /\ faults' = 0
        /\ AppliedJustBefore(last'.analysis_id))
       => (trades' = trades /\ trade_history' = trade_history)]_vars

TradesOpenedBy(analysis_id) ==
    {t \in 1..Len(trades) : trades[t].opening_analysis_id = analysis_id}

EventsTriggeredBy(analysis_id, event_type) ==
    {i \in 1..Len(trade_history) :
        /\ trade_history[i].triggering_analysis_id = analysis_id
        /\ trade_history[i].event_type = event_type}

\* C14: when no statement fails, however often the id of a message has been
\* delivered to the Processor, the pipeline has produced for it what one
\* delivery produces: at most one trade opened by its analysis and at most
\* one history event of each type triggered by its analysis.
C14_DuplicateDeliveryAsOnce ==
    faults = 0 =>
        \A m \in DOMAIN runs :
            /\ Cardinality(TradesOpenedBy(AnalysisId(m))) <= 1
            /\ \A type \in {"create", "update", "close"} :
                 Cardinality(EventsTriggeredBy(AnalysisId(m), type)) <= 1

StoredCount == Cardinality(DOMAIN messages)

Ids(seq) == {seq[i] : i \in 1..Len(seq)}

\* C15: on every store and from every start id, cyclic or self-referencing
\* parent links included, fetch_reply_chain gathers no id twice on the way
\* up and adds no message twice on the way down, it is never stuck before
\* it returns, it returns within 2 * (number of stored messages) + 4 steps,
\* and what it returns are the lines of the chain it gathered.
C15_ReplyChainTerminates ==
    /\ Len(walk.parent_chain_ids) <= StoredCount + 1
    /\ Len(walk.chain) <= StoredCount
    /\ walk.steps <= 2 * StoredCount + 4
    /\ walk.pc # "done" => ENABLED NextChain
    /\ walk.pc = "done" =>
           /\ Len(walk.result) = Len(walk.chain)
           /\ \A i \in 1..Len(walk.chain) :
                walk.result[i].text = walk.chain[i].content

\* a call that met a parent link leading back into the ids already walked
\* has returned the messages of the cycle
C15_Witness ==
    /\ walk.pc = "done"
    /\ walk.current_id \in DOMAIN messages
    /\ walk.current_id \in Ids(walk.parent_chain_ids)
    /\ Len(walk.parent_chain_ids) >= 3
    /\ Len(walk.result) >= 3

\* C16: the upward walk follows at most max_reply_depth parent links, that
\* is, it gathers at most max_reply_depth + 1 ids: on a longer acyclic
\* parent chain it stops there and reads the thread from the last id
\* gathered instead of the true root.
C16_WalkStopsAtDepthBound ==
    Len(walk.parent_chain_ids) <= max_reply_depth + 1

\* The text of the lines returned
ResultTexts == {walk.result[i].text : i \in 1..Len(walk.result)}

\* C17: a call for a stored message that met a missing ancestor returns the
\* chain cut at the missing message: its lines hold the given message and
\* every stored ancestor gathered before the missing one.
C17_MissingAncestorTruncates ==
    (/\ walk.pc = "done"
     /\ walk.message_id \in DOMAIN messages
     /\ \E i \in 1..Len(walk.parent_chain_ids) :
            walk.parent_chain_ids[i] \notin DOMAIN messages)
    => \A i \in 1..Len(walk.parent_chain_ids) :
           walk.parent_chain_ids[i] \in DOMAIN messages =>
               messages[walk.parent_chain_ids[i]].content \in ResultTexts

\* C18: an Analysis carrying the error of a failed classifier call is stored
\* for a message only after the classifier has been invoked
\* stop_after_attempt times for it.
C18_OtherStoredOnlyAfterAllAttempts ==
    \A m \in DOMAIN calls :
        (\E i \in DocsOf(m) : analyses_coll[i].reason = "Error")
            => calls[m] >= stop_after_attempt

\* The process_message run of this step called the classifier and the call
\* failed (no JSON, no action_type, transport error).
ClassifierCallFailed ==
    /\ last'.op = "process_message"
    /\ calls' # calls
    /\ last'.outcome = NoKey

\* C19: a run of process_message whose classifier call fails pushes no
\* trade action, and the Analysis it stores for the message (it stores one
\* unless the store statement fails) has classification 'other' and the
\* error as its reason.
C19_FailedCallStoresOtherNoPush ==
    [][ClassifierCallFailed =>
          /\ trade_actions' = trade_actions
          /\ LET docs == {i \in 1..Len(analyses_coll') :
                             analyses_coll'[i].message_id = last'.message_id}
             IN  /\ last'.f # "store" => docs # {}
                 /\ \A i \in docs :
                      /\ analyses_coll'[i].action_type = "other"
                      /\ analyses_coll'[i].reason = "Error"]_vars

C19_Witness ==
    /\ last.op = "process_message"
    /\ last.f = "none"
    /\ last.outcome = NoKey
    /\ calls[last.message_id] = 1
    /\ \E i \in DocsOf(last.message_id) :
          analyses_coll[i].action_type = "other"
    /\ \A i \in 1..Len(trade_actions) :
          trade_actions[i].message_id # last.message_id

\* Messages that process_message classifies (non-empty content)
Classified ==
    {m \in DOMAIN StoredMessages : strip(StoredMessages[m].content) # ""}

\* C20: a message whose handling by process_message ended without an
\* Analysis stored is handled again later, so that eventually an Analysis
\* is stored for it (the failures of a behaviour are finitely many).
C20_AbandonedIsHandledAgain ==
    \A m \in Classified :
        (runs[m].n >= 1 /\ DocsOf(m) = {}) ~> (DocsOf(m) # {})

\* C21: whatever has failed so far (a statement of process_message or of
\* process_action, or the pop from the queue), the Processor loop and the
\* TradeManager loop are both still polling their queue.
C21_LoopsKeepPolling ==
    \A loop \in Loops : loops[loop].alive

\* the Processor has handled a payload, the pop of its next iteration has
\* failed, and the iteration after it can handle the payload that is
\* waiting
C21_Witness ==
    /\ last.op = "pop_error"
    /\ last.loop = "Processor"
    /\ \E m \in DOMAIN runs : runs[m].n >= 1
    /\ message_queue # <<>>
    /\ ENABLED ProcessMessage

Payloads(list) == {list[i] : i \in 1..Len(list)}

\* the payload of a set that was pushed first
Oldest(payloads) == CHOOSE x \in payloads : \A y \in payloads : x <= y

\* A step that is a push or a pop on the list queue_name, the other list
\* being 'other'
QueueStepOk(queue_name, other) ==
    /\ redis'[other] = redis[other]
    /\ IF last'.op = "push_to_queue"
       THEN Payloads(redis'[queue_name])
                = Payloads(redis[queue_name]) \cup {last'.value}
       ELSE IF redis[queue_name] = <<>>
       THEN last'.value = Null /\ redis'[queue_name] = <<>>
       ELSE /\ last'.value = Oldest(Payloads(redis[queue_name]))
            /\ Payloads(redis'[queue_name])
                   = Payloads(redis[queue_name]) \ {last'.value}

\* C22: a pop on a list returns the payload that was pushed to it first
\* among those it holds and removes only that one, a push adds only the
\* payload pushed, no push or pop on one list changes the other list, and
\* a pop on an empty list returns None instead of waiting for ever (the
\* pop of the run loops can always return).
C22_QueuesFifoAndIndependent ==
    /\ [](\A queue_name \in QueueNames : ENABLED Pop(queue_name))
    /\ [][\A queue_name, other \in QueueNames :
            (queue_name # other /\ last'.queue_name = queue_name)
                => QueueStepOk(queue_name, other)]_vars

\* a pop has returned the first of three payloads pushed to one list while
\* the other list holds a payload pushed in between
C22_Witness ==
    /\ last.op = "pop_from_queue"
    /\ last.value # Null
    /\ \E other \in QueueNames :
        /\ other # last.queue_name
        /\ Len(redis[last.queue_name]) = 2
        /\ \A x \in Payloads(redis[last.queue_name]) : x > last.value
        /\ \E y \in Payloads(redis[other]) :
            /\ y > last.value
            /\ \E x \in Payloads(redis[last.queue_name]) : x > y

\* The direction of an instruction: -1 for trim / scale out, 1 for add /
\* scale in
Direction(details) == IF IsTrim(details) THEN 0 - 1 ELSE 1

\* The instruction names a percentage (an integer followed by '%')
PercentGiven(details) ==
    /\ HasPercent(details)
    /\ PercentToken(details).ok
    /\ PercentToken(details).isint

\* The instruction ends with a bare integer
IntegerGiven(details) ==
    ~HasPercent(details) /\ LastToken(details).isint

\* C23: every logged update of a trim / scale out or add / scale in
\* instruction records, for a percentage p, the change
\* current_quantity * p / 100 truncated toward zero and, for a bare
\* trailing integer n, the change n, negative for trim and positive for
\* add, and as new quantity max(0, current + change).
C23_QuantityChangeAsInstructed ==
    \A i \in 1..Len(trade_history) :
        LET e == trade_history[i]
        IN  (/\ e.event_type = "update"
             /\ e.details.updates.quantity # <<>>
             /\ PercentGiven(e.details.details)
                    \/ IntegerGiven(e.details.details))
            => LET d == e.details.details
                   q == e.details.updates.quantity
                   change ==
                       IF PercentGiven(d)
                       THEN Direction(d)
                              * TruncDiv(q[1] * PercentToken(d).v, 100)
                       ELSE Direction(d) * LastToken(d).v
               IN  /\ q[2] = change
                   /\ Len(q) = 3 => q[3] = Max(0, q[1] + change)
                   /\ Len(q) = 2 => change = 0

\* The amount of a trim or add instruction cannot be parsed
AmountUnparseable(details) ==
    /\ IsTrim(details) \/ IsAdd(details)
    /\ ~PercentGiven(details)
    /\ ~IntegerGiven(details)

\* C24: after update_trade has handled a trim or add instruction whose
\* amount cannot be parsed (no trailing integer, or a '%' that no integer
\* precedes), the quantity of the trade is the one before changed by 1 in
\* the direction of the instruction, and not below 0.
C24_UnparseableAmountChangesByOne ==
    (last.op = "update_trade" /\ AmountUnparseable(last.details))
        => trades[last.trade_id].quantity
               = Max(0, last.quantity + Direction(last.details))

\* C25: once a message is stored, handing the same id to the listener again
\* changes none of its timestamp, content and parent_id, no step resets its
\* processed flag, and no step deletes it; this holds in the listener's table
\* and in the raw_messages collection that the Processor marks.
StoredMessageKept(store, store_after) ==
    \A id \in DOMAIN store :
        /\ id \in DOMAIN store_after
        /\ store_after[id].timestamp = store[id].timestamp
        /\ store_after[id].content = store[id].content
        /\ store_after[id].parent_id = store[id].parent_id
        /\ store[id].processed => store_after[id].processed

C25_StoredMessageCreatedOnce ==
    [][/\ StoredMessageKept(messages_table, messages_table')
       /\ \A id \in DOMAIN messages :
              /\ id \in DOMAIN messages'
              /\ messages'[id].content = messages[id].content
              /\ messages[id].processed => messages'[id].processed]_vars

\* C26: when the insert of a new trade fails (the statement fails, or the
\* table rejects the row), open_trade inserts nothing later in the same
\* call, leaves every existing trade as it was and appends no history event.
InsertFailed ==
    /\ IsHandled("new_trade")
    /\ \/ last'.f = "insert"
       \/ ~insert_accepted(AnalysisPayload(last'.message_id))

C26_FailedInsertChangesNothing ==
    [][InsertFailed =>
          /\ trades' = trades
          /\ trade_history' = trade_history
          /\ mutations' = mutations]_vars

\* an insert that failed while another trade existed
C26_Witness ==
    /\ last.op = "new_trade"
    /\ last.f = "insert"
    /\ insert_accepted(AnalysisPayload(last.message_id))
    /\ Len(trades) >= 1
    /\ \A t \in 1..Len(trades) :
           trades[t].opening_analysis_id # last.analysis_id

\* C27: a trade_close whose analysis has no related_trade_id, or one that
\* matches no trade, changes no trade row and appends no history event.
C27_CloseOfUnknownTradeIsNoOp ==
    [][(/\ IsHandled("trade_close")
        /\ last'.trade_id \notin 1..Len(trades))
       => (/\ trades' = trades
           /\ trade_history' = trade_history
           /\ mutations' = mutations)]_vars

\* a close naming a trade that does not exist, handled while another trade
\* existed and after two earlier actions
C27_Witness ==
    /\ last.op = "trade_close"
    /\ last.f = "none"
    /\ last.trade_id # NoId
    /\ last.trade_id \notin 1..Len(trades)
    /\ Len(trades) >= 1
    /\ clock >= 3

\* C28: the trade history is append-only: every step leaves each existing
\* event where it was, with the same trade_id, triggering_analysis_id,
\* event_type and details, and new events are added at the end only.
Event(e) ==
    [trade_id |-> e.trade_id,
     triggering_analysis_id |-> e.triggering_analysis_id,
     event_type |-> e.event_type, details |-> e.details]

C28_HistoryAppendOnly ==
    [][/\ Len(trade_history') >= Len(trade_history)
       /\ \A i \in 1..Len(trade_history) :
              Event(trade_history'[i]) = Event(trade_history[i])]_vars

\* a step appended two events (update, then close) behind existing ones
C28_Witness ==
    LET n == Len(trade_history)
    IN  /\ n >= 3
        /\ last.op = "trade_update"
        /\ trade_history[n].event_type = "close"
        /\ trade_history[n - 1].event_type = "update"
        /\ trade_history[n].triggering_analysis_id = last.analysis_id
        /\ trade_history[n - 1].triggering_analysis_id = last.analysis_id
        /\ trade_history[1].event_type = "create"

\* The topmost ancestor of a stored message, found by following at most n
\* parent links; 0 when a link leads to a message that is not stored or the
\* links do not end within n steps (a cycle).
RECURSIVE RootOf(_, _)
RootOf(id, n) ==
    IF n = 0 \/ id \notin DOMAIN messages THEN 0
    ELSE IF Falsy(messages[id].parent_id) THEN id
    ELSE RootOf(messages[id].parent_id, n - 1)

\* The thread of a root: the root and all its transitive replies
ThreadOf(root) ==
    {id \in DOMAIN messages : RootOf(id, StoredCount) = root}

\* C29: for a stored message whose ancestors are all stored and acyclic,
\* the chain that fetch_reply_chain returns holds exactly the messages of
\* the thread of the topmost ancestor, each once, in non-decreasing
\* timestamp order, and one line per message in that order.
C29_ChainIsThreadOfRoot ==
    (walk.pc = "done" /\ RootOf(walk.message_id, StoredCount) # 0) =>
        LET thread == ThreadOf(RootOf(walk.message_id, StoredCount))
        IN  /\ Ids([i \in 1..Len(walk.chain) |-> walk.chain[i].message_id])
                   = thread
            /\ Len(walk.chain) = Cardinality(thread)
            /\ \A i \in 1..(Len(walk.chain) - 1) :
                   walk.chain[i].timestamp <= walk.chain[i + 1].timestamp
            /\ \A i \in 1..Len(walk.chain) :
                   /\ walk.chain[i].timestamp
                          = messages[walk.chain[i].message_id].timestamp
                   /\ walk.result[i].text
                          = messages[walk.chain[i].message_id].content

\* the call for message 3 of the thread 1 <- 2 <- 3, 1 <- 4 returned the
\* four messages, 4 (sent earlier) before 3
C29_Witness ==
    /\ walk.pc = "done"
    /\ messages = Thread
    /\ walk.message_id = 3
    /\ [i \in 1..Len(walk.chain) |-> walk.chain[i].message_id]
           = <<1, 2, 4, 3>>

\* C30: on a cache miss the trade snapshot passed to the classifier holds
\* exactly the trades whose status is pending_open or open, whenever they
\* were created: no closed trade, and every open or pending trade.
C30_SnapshotIsOpenTrades ==
    last.op = "process_message" =>
        \A k \in 1..Len(last.todays_trades) :
            {last.todays_trades[k][i].trade_id :
                 i \in 1..Len(last.todays_trades[k])}
              = {trades_coll[i].trade_id :
                   i \in {j \in 1..Len(trades_coll) :
                             trades_coll[j].status
                                 \in {"pending_open", "open"}}}

\* The action_type of the analysis that process_message obtains for a
\* message in the step just taken: the cached one, else what the classifier
\* call gave ('other' when the call failed); none for a message that is not
\* stored or has no text.
ObtainedActionType(message_id) ==
    IF \/ message_id \notin DOMAIN messages
       \/ messages[message_id].content \in {"", "  "}
    THEN "<none>"
    ELSE IF \E i \in 1..Len(analyses_coll) :
                analyses_coll[i].message_id = message_id
    THEN LET i == CHOOSE i \in 1..Len(analyses_coll) :
                      analyses_coll[i].message_id = message_id
         IN  analyses_coll[i].action_type
    ELSE IF last'.outcome = NoKey THEN "other" ELSE last'.outcome

ProcessorHandled ==
    /\ last'.op = "process_message"
    /\ Len(message_queue') = Len(message_queue) - 1

\* C31: the Processor (its push not failing) pushes a trade action for a
\* message exactly when the analysis it obtained for it is a new_trade,
\* trade_update or trade_close, and the payload names that message; and the
\* TradeManager handling a trade action whose stored analysis is
\* irrelevant, other or of any other classification changes no trade row
\* and appends no history event.
C31_OnlyActionableIsPushedAndApplied ==
    [][/\ (ProcessorHandled /\ last'.f # "push") =>
              IF ObtainedActionType(last'.message_id)
                     \in {"new_trade", "trade_update", "trade_close"}
              THEN trade_actions' = <<[message_id |-> last'.message_id]>>
                                        \o trade_actions
              ELSE trade_actions' = trade_actions
       /\ (/\ clock' = clock + 1
           /\ Classification(last'.message_id)
                  \notin {"new_trade", "trade_update", "trade_close"})
          => (/\ trades' = trades
              /\ trade_history' = trade_history
              /\ mutations' = mutations)]_vars

\* the TradeManager has ignored a trade action of the unknown
\* classification 'hold' while a trade existed, after the Processor had
\* pushed the action of a message classified new_trade
C31_Witness ==
    /\ last.message_id = 23
    /\ clock >= 2
    /\ Len(trades) >= 1
    /\ Len(trade_history) >= 1
    /\ \E i \in 1..Len(analyses_coll) :
           /\ analyses_coll[i].action_type = "new_trade"
           /\ analyses_coll[i].message_id = 1

\* C32: every trade action waiting in the trade-action queue, and every one
\* the TradeManager has popped, names a message whose analysis is in the
\* table the TradeManager reads, so that its fetch by message id finds it.
C32_QueuedActionHasFetchableAnalysis ==
    /\ \A i \in 1..Len(trade_actions) :
           get_analysis_by_message_id(trade_actions[i].message_id) # {}
    /\ last.op # "<no analysis>"

\* C33: the classification of every stored analysis is one of new_trade,
\* trade_update, trade_close, irrelevant and other, whatever action_type
\* the classifier returned.
C33_StoredClassificationIsKnown ==
    \A i \in 1..Len(analyses_coll) :
        analyses_coll[i].action_type
            \in {"new_trade", "trade_update", "trade_close", "irrelevant",
                 "other"}

Parsed == last.op = "parse_expiration_date"

HasPhrases(phrases) == Parsed /\ lower(last.date_str.contains) \cap phrases # {}

\* The result is the Friday that lies 0 to 6 days after today
ResultIsFridayOfThisWeek ==
    \E k \in 0..6 :
        /\ weekday(plus_days(last.today, k)) = 4
        /\ last.result = isoformat(plus_days(last.today, k))
        /\ weekday(last.today) = 4 => k = 0

Unparseable ==
    /\ Parsed
    /\ \/ last.date_str.kind # "str"
       \/ /\ last.date_str.contains = {}
          /\ \A i \in 1..Len(Formats) :
                 strptime(last.date_str.written, Formats[i]) = <<>>

\* C34 as stated: every text containing 'this week' or 'end of week' gives
\* the Friday 0 to 6 days ahead (today on a Friday), every text containing
\* '0dte' or 'today' gives today, every text containing 'tomorrow' gives
\* today plus one day, and a non-string or unparseable value gives today.
C34_ExpirationDateByPhrase ==
    /\ HasPhrases({"this week", "end of week"}) => ResultIsFridayOfThisWeek
    /\ HasPhrases({"0dte", "today"}) => last.result = isoformat(last.today)
    /\ HasPhrases({"tomorrow"}) =>
           last.result = isoformat(plus_days(last.today, 1))
    /\ Unparseable => last.result = isoformat(last.today)

\* C34, amended: the phrases are looked for in this order and the first one
\* found decides: 'this week' or 'end of week' gives that Friday; otherwise
\* '0dte' or 'today' gives today; otherwise 'tomorrow' gives today plus one
\* day; a non-string or unparseable value gives today.
C34_ExpirationDateByFirstPhrase ==
    /\ HasPhrases({"this week", "end of week"}) => ResultIsFridayOfThisWeek
    /\ (/\ HasPhrases({"0dte", "today"})
        /\ ~HasPhrases({"this week", "end of week"}))
          => last.result = isoformat(last.today)
    /\ (/\ HasPhrases({"tomorrow"})
        /\ ~HasPhrases({"this week", "end of week", "0dte", "today"}))
          => last.result = isoformat(plus_days(last.today, 1))
    /\ Unparseable => last.result = isoformat(last.today)

\* 'End of Week' and 'tomorrow' in one text on Tuesday 2024-12-31: the
\* result is Friday 2025-01-03
C34_Witness ==
    /\ Parsed
    /\ last.date_str.contains = {"End of Week", "tomorrow"}
    /\ last.today = Date(2024, 12, 31)
    /\ last.result = <<2025, 1, 3>>

\* C35: every closed trade has quantity 0 and a closed_at, every
\* pending_open or open trade has no closed_at; no update, an 'add' after
\* the close included, gives a closed trade a positive quantity.
C35_ClosedTradeHasQuantityZero ==
    \A t \in 1..Len(trades) :
        /\ trades[t].status = "closed" =>
               (trades[t].quantity = 0 /\ trades[t].closed_at # NoTime)
        /\ trades[t].status \in {"pending_open", "open"} =>
               trades[t].closed_at = NoTime

\* C36: a trade_update whose related trade is already closed leaves the
\* row of that trade as it was (stop_loss, take_profit, quantity,
\* updated_at) and appends no history event.
C36_UpdateOfClosedTradeIsNoOp ==
    [][(/\ IsHandled("trade_update")
        /\ last'.trade_id \in 1..Len(trades)
        /\ trades[last'.trade_id].status = "closed")
       => (/\ trades'[last'.trade_id] = trades[last'.trade_id]
           /\ trade_history' = trade_history)]_vars

\* C37: every message with text whose processed flag is set has a stored
\* analysis.
C37_ProcessedMessageHasAnalysis ==
    \A id \in DOMAIN messages :
        (messages[id].processed /\ strip(messages[id].content) # "") =>
            \E i \in 1..Len(analyses_coll) :
                analyses_coll[i].message_id = id

\* C38: for a popped message id that is not in the message store, or whose
\* stored content is empty or blank, process_message calls the classifier
\* not at all, stores no analysis and pushes no trade action; the message
\* without text is marked processed (its other fields and all other
\* messages are left alone), and for the absent id nothing changes.
C38_AbsentOrEmptyIsNotClassified ==
    [][ProcessorHandled =>
         /\ last'.message_id \notin DOMAIN messages =>
               /\ calls' = calls
               /\ analyses_coll' = analyses_coll
               /\ trade_actions' = trade_actions
               /\ messages' = messages
         /\ (/\ last'.message_id \in DOMAIN messages
             /\ messages[last'.message_id].content \in {"", "  "}) =>
               /\ calls' = calls
               /\ analyses_coll' = analyses_coll
               /\ trade_actions' = trade_actions
               /\ last'.todays_trades = <<>>
               /\ last'.f = "none" =>
                      messages' = [messages EXCEPT
                                      ![last'.message_id].processed = TRUE]]_vars

\* the absent id and the blank message have both been handled, the blank
\* one last: it is marked processed and nothing was classified or stored
C38_Witness ==
    /\ last.op = "process_message"
    /\ last.message_id = 17
    /\ messages[17].processed
    /\ Absent \in DOMAIN messages_table
    /\ message_queue = <<>>
    /\ analyses_coll = <<>>
    /\ \A id \in DOMAIN calls : calls[id] = 0

\* C39: in the regex-based TradeManager, once a trade is CLOSED no later
\* message applied to it as an update (by reply, by ticker or by time)
\* leaves it TRIMMED or OPEN.
C39_ClosedIsTerminal ==
    [][\A i \in 1..Len(active_trades) :
          (/\ active_trades[i].status = "CLOSED"
           /\ active_trades'[i].updates
                  = Append(active_trades[i].updates, last'.content))
          => active_trades'[i].status \notin {"TRIMMED", "OPEN"}]_vars

====
